---- MODULE Spec2Model ----
(***************************************************************************)
(* Model of user_sites: the request dispatcher of src/main.rs              *)
(* (path resolution, admission, the shared accessor/cache map and its      *)
(* mutex), its environment filter and POST stream copy, and the            *)
(* transcluding reader of src/file_reader.rs and the autoindex generator   *)
(* of src/auto_index.rs, as state machines.                                *)
(*                                                                         *)
(*   SpecResolve  path resolution alone, over every URL path up to         *)
(*                MaxUrlLen tokens                                         *)
(*   Spec         NumWorkers worker threads on the shared state            *)
(*   FairSpec     Spec with every worker thread scheduled                  *)
(*   SpecEnv      the environment of a spawned executable                  *)
(*   SpecCopy     the copy of a POST stream to the child's stdin           *)
(*   SpecReader   FileReader::read on an HTML file of any bytes            *)
(*   SpecPlain    FileReader::read on a file without sentinels             *)
(*   SpecCycle    FileReader::read on files that include each other        *)
(*   FairSpecCycle  SpecCycle with the consumer reading on                 *)
(*   SpecIndex    generate_index of src/auto_index.rs                      *)
(*                                                                         *)
(* A URL path is a sequence of tokens: the separator "/" or a maximal run  *)
(* of non-separator bytes (a segment).  A PathBuf is the sequence of its   *)
(* components, the root directory being the component "/": PathBuf         *)
(* equality and hashing in Rust are component-wise, so two PathBufs are    *)
(* the same map key iff their component sequences are equal.               *)
(***************************************************************************)
EXTENDS Integers, Sequences, FiniteSets, TLC

----------------------------------------------------------------------------
(* Program constants, src/main.rs:22-27 *)

MAX_CONCURRENT_ACCESSORS == 5000

MAX_CACHE_FILE_SIZE == 50 * 1024 * 1024

MAX_CACHE_SIZE == 1 * 1024 * 1024 * 1024

----------------------------------------------------------------------------
(* Bounds of the model *)

\* longest URL path, in tokens, enumerated for path resolution
MaxUrlLen == 6

\* number of connections accepted by the listener, one worker thread each
NumWorkers == 2

----------------------------------------------------------------------------
(* Paths *)

RootDir == "/"

CurDir == "."

ParentDir == ".."

\* tokens a URL path is built from: the separator, the two special segments
\* and names (among them the names the resolver itself inserts)
Tokens == {"/", ".", "..", "a", "home"}

\* two segments are never adjacent: they would be one longer segment
WellFormed(u) == \A i \in 1..(Len(u) - 1) : u[i] = "/" \/ u[i + 1] = "/"

AllUrls == { u \in UNION { [1..n -> Tokens] : n \in 0..MaxUrlLen } : WellFormed(u) }

\* std::path::Path::components on Unix: a leading separator is the root
\* directory, empty segments vanish, "." vanishes except as the very first
\* segment of a relative path, ".." is ParentDir, anything else is Normal.
Components(u) ==
    LET root == IF Len(u) > 0 /\ u[1] = "/" THEN <<RootDir>> ELSE <<>>
        lead == IF Len(u) > 0 /\ u[1] = "." THEN <<CurDir>> ELSE <<>>
        rest == SelectSeq(u, LAMBDA t : t \notin {"/", "."})
    IN  root \o lead \o rest

\* PathBuf::push / Path::join of one component: an absolute component
\* replaces the path, any other is appended
PathPush(p, c) == IF c = RootDir THEN <<RootDir>> ELSE Append(p, c)

RECURSIVE PathJoin(_, _)
PathJoin(p, q) == IF q = <<>> THEN p
                  ELSE PathJoin(PathPush(p, Head(q)), Tail(q))

Home == <<RootDir, "home">>

\* without the filter of main.rs:50-56
MutKeepParentDir(cs) == cs

\* a filter that applies each ParentDir to the component before it
\* instead of dropping it
RECURSIVE MutApplyParentDir(_)
MutApplyParentDir(cs) ==
    IF cs = <<>> THEN <<>>
    ELSE LET front == MutApplyParentDir(SubSeq(cs, 1, Len(cs) - 1))
             c == cs[Len(cs)]
         IN  IF c # ParentDir THEN Append(front, c)
             ELSE IF Len(front) > 1 THEN SubSeq(front, 1, Len(front) - 1)
             ELSE front

\* main.rs:50-56: the components that are not ParentDir
FilterParentDir(cs) == SelectSeq(cs, LAMBDA c : c # ParentDir)

\* main.rs:46-65: the filesystem path handle_client computes for a URL path
ResolvePath(u) ==
    LET components == FilterParentDir(Components(u))
    IN  IF Len(components) >= 2
        THEN LET user == components[2]
                 path == PathJoin(<<>>, SubSeq(components, 3, Len(components)))
             IN  PathJoin(PathPush(PathPush(Home, user), "www"), path)
        ELSE Home

IsPrefix(p, q) == Len(p) <= Len(q) /\ SubSeq(q, 1, Len(p)) = p

Elems(s) == { s[i] : i \in 1..Len(s) }

Last(s) == s[Len(s)]

----------------------------------------------------------------------------
(* The filesystem under /home, and the requests of the model *)

MiB == 1024 * 1024

Www == <<RootDir, "home", "a", "www">>

FsDirs == { Home, <<RootDir, "home", "a">>, Www, Www \o <<"d">>, Www \o <<"x">> }

\* regular files and their sizes in bytes
FsFiles ==
    (Www \o <<"index.html">>) :> 4 * 1024
    @@ (Www \o <<"f">>) :> 1 * MiB
    @@ (Www \o <<"g">>) :> MAX_CACHE_FILE_SIZE
    @@ (Www \o <<"x", "index_executable">>) :> 8 * 1024
    @@ (Www \o <<"x", "form_executable">>) :> 8 * 1024

IsDir(p) == p \in FsDirs

IsFile(p) == p \in DOMAIN FsFiles

Exists(p) == IsDir(p) \/ IsFile(p)

\* sizes an autoindex page can have; a directory may change between two
\* renderings of its index
IndexSizes == { 4 * 1024, 512 * MiB }

\* the URL path /bob/../alice/secret; nothing exists under /home/bob or
\* /home/alice
BobUrl == <<"/", "bob", "/", "..", "/", "alice", "/", "secret">>

Requests ==
    { [method |-> "GET", url |-> u] :
        u \in { <<"/">>, <<"/", "home">>, <<"/", "a">>,
                <<"/", "a", "/", "f">>, <<"/", "a", "/", "g">>,
                <<"/", "a", "/", "d", "/">> } }
    \cup { [method |-> "POST", url |-> <<"/", "a", "/", "x">>] }
    \cup { [method |-> "GET", url |-> BobUrl] }
    \cup { [method |-> "GET", url |-> <<"/", "a", "/", "x", "/", "form_executable">>] }

\* accessors admitted before the modelled workers and still writing their
\* responses to slow clients: none, as many on /home as admission lets in
\* one after the other, or a single one streaming a file
Crowds ==
    { [path |-> Home, n |-> 0],
      [path |-> Home, n |-> MAX_CONCURRENT_ACCESSORS],
      [path |-> Www \o <<"f">>, n |-> 1] }

----------------------------------------------------------------------------
(* Shared state: Arc<Mutex<(HashMap<PathBuf, (usize, Option<Bytes>)>, usize)>> *)

None == [some |-> FALSE, len |-> 0, body |-> <<>>]

Some(body, len) == [some |-> TRUE, len |-> len, body |-> body]

\* cache.as_ref().map_or(0, |c| c.len())
CacheLen(c) == IF c.some THEN c.len ELSE 0

Workers == 1..NumWorkers

NoWorker == 0

VARIABLES
    req_path,       \* path resolution alone: the URL path
    resolved,       \* path resolution alone: the path computed for it
    map,            \* shared.0: PathBuf -> [n: accessors, cache: Option<Bytes>]
    cache_size,     \* shared.1: cache bytes in use
    lock_holder,    \* the worker whose MutexGuard is alive across steps
    poisoned,       \* the mutex is poisoned: a thread panicked holding it
    crowd,          \* the accessors admitted before the workers: path and number
    pc,             \* each worker's position in handle_client
    request,        \* each worker's request: method and URL path
    file_path,      \* handle_client's file_path
    access_number,  \* handle_client's access_number
    served,         \* handle_get's local file_path
    new_cache,      \* the bytes a worker is about to pass to set_cache
    response,       \* what the worker answered
    installed,      \* history: what the worker's set_cache did
    raises          \* history: per path, the set_cache calls that raised cache_size

wvars == <<pc, request, file_path, access_number, served, new_cache, response, installed>>

svars == <<map, cache_size, lock_holder, poisoned, crowd, raises>>

\* functions of the program that are checked on their own, on inputs drawn
\* by the initial state
VARIABLES
    query,          \* filter_env_variables: the keys of vars (a query or a form)
    allowed,        \* the names listed in the sibling allowed_variables file
    child_env,      \* the keys handed to Command::envs
    spawned         \* the executable that was spawned

evars == <<query, allowed, child_env, spawned>>

VARIABLES
    body,           \* handle_post: the bytes of the request body stream
    body_pos,       \* the bytes of the body read so far
    buffer,         \* the copy buffer of main.rs:232
    stdin,          \* the bytes written to the child's standard input
    copy_pc         \* the position of the copying thread

cvars == <<body, body_pos, buffer, stdin, copy_pc>>

VARIABLES
    root,           \* FileReader: the bytes of the file it was opened on
    root_html,      \* is_transclude_enabled of that file
    inc,            \* the bytes of the files a directive can name
    readers,        \* FileReader::readers, the stack of ReaderData
    out,            \* the bytes the consumer has received
    rd_pc,          \* the consumer: between reads, in a read, or stopped
    read_len,       \* read_into.len() of the read under way
    written,        \* bytes_written of the read under way
    ec,             \* ec.consecutive_escapes of the read under way
    pushed          \* history: frames pushed by directives

fvars == <<root, root_html, inc, readers, out, rd_pc, read_len, written, ec, pushed>>

VARIABLES
    dir_entries,    \* generate_index: the directory, name -> metadata
    page_size,      \* its argument page_size
    page_number,    \* its argument page_number
    overflow_checks,\* the build panics on integer overflow (else it wraps)
    ix_pc,          \* the call: not made, made, returned Ok, or panicked
    page            \* the page it built

ivars == <<dir_entries, page_size, page_number, overflow_checks, ix_pc, page>>

units == <<evars, cvars, fvars, ivars>>

dispatcher == <<req_path, resolved, svars, wvars>>

vars == <<dispatcher, units>>

NotSpawned == <<"-">>

\* no query or form has been received
EnvIdle ==
    /\ query = {}
    /\ allowed = {}
    /\ child_env = NotSpawned
    /\ spawned = "none"

\* no stream body has been received
CopyIdle ==
    /\ body = <<>>
    /\ body_pos = 0
    /\ buffer = <<>>
    /\ stdin = <<>>
    /\ copy_pc = "none"

\* no FileReader has been made
ReaderIdle ==
    /\ root = <<>>
    /\ root_html = FALSE
    /\ inc = <<>>
    /\ readers = <<>>
    /\ out = <<>>
    /\ rd_pc = "none"
    /\ read_len = 0
    /\ written = 0
    /\ ec = 0
    /\ pushed = 0

NoPage == [start |-> 0, listed |-> <<>>, num_pages |-> 0, prev |-> FALSE, next |-> FALSE]

\* generate_index has not been called
IndexIdle ==
    /\ dir_entries = <<>>
    /\ page_size = 0
    /\ page_number = 0
    /\ overflow_checks = FALSE
    /\ ix_pc = "none"
    /\ page = NoPage

UnitsIdle == EnvIdle /\ CopyIdle /\ ReaderIdle /\ IndexIdle

Unresolved == <<"?">>

NoRequest == [method |-> "none", url |-> <<>>]

\* main.rs:34: an empty map and no cache bytes; no connection accepted yet
InitWorkers ==
    /\ pc = [w \in Workers |-> "idle"]
    /\ request = [w \in Workers |-> NoRequest]
    /\ file_path = [w \in Workers |-> Unresolved]
    /\ access_number = [w \in Workers |-> 0]
    /\ served = [w \in Workers |-> Unresolved]
    /\ new_cache = [w \in Workers |-> None]
    /\ response = [w \in Workers |-> "none"]
    /\ installed = [w \in Workers |-> "none"]

InitShared(c) ==
    /\ crowd = c
    /\ map = IF c.n = 0 THEN <<>> ELSE (c.path :> [n |-> c.n, cache |-> None])
    /\ cache_size = 0
    /\ lock_holder = NoWorker
    /\ poisoned = FALSE
    /\ raises = <<>>

\* no connection has been accepted and none will be
DispatcherIdle ==
    /\ req_path = <<>>
    /\ resolved = Unresolved
    /\ InitShared([path |-> Home, n |-> 0])
    /\ InitWorkers

Init ==
    /\ req_path = <<>>
    /\ resolved = Unresolved
    /\ \E c \in Crowds : InitShared(c)
    /\ InitWorkers
    /\ UnitsIdle

----------------------------------------------------------------------------
(* The functions of main.rs on the shared state *)

\* main.rs:317-323
get_concurrent_accessors(m, key) == IF key \in DOMAIN m THEN m[key].n ELSE 0

\* main.rs:312-314
get_cache(m, p) == IF p \in DOMAIN m THEN m[p].cache ELSE None

\* main.rs:67: the key handed to get_concurrent_accessors is the request's
\* URL path (path), not the resolved file_path
AdmissionKey(r) == Components(r.url)

\* main.rs:67: the request is turned away
TooBusy(m, r) == get_concurrent_accessors(m, AdmissionKey(r)) > MAX_CONCURRENT_ACCESSORS

\* an Accessing that stores the count it read, without the increment
MutAccessingNoIncrement(m, p) ==
    IF p \in DOMAIN m THEN m ELSE (p :> [n |-> 1, cache |-> None]) @@ m

\* main.rs:260-277, UpdateType::Accessing: the map afterwards
Accessing(m, p) ==
    IF p \in DOMAIN m
    THEN [m EXCEPT ![p].n = @ + 1]
    ELSE (p :> [n |-> 1, cache |-> None]) @@ m

\* an Accessing that returns the count it wrote, not the count it read
MutAccessNumberAfter(m, p) == IF p \in DOMAIN m THEN m[p].n + 1 ELSE 1

\* main.rs:258-277, UpdateType::Accessing: the value returned
AccessNumber(m, p) == IF p \in DOMAIN m THEN m[p].n ELSE 0

\* main.rs:281-288: the decrement behind the second shared.lock(); the
\* result is the pair (map, cache size)
Decrement(m, cs, p) ==
    IF p \in DOMAIN m
    THEN IF m[p].n - 1 = 0
         THEN [map |-> [k \in DOMAIN m \ {p} |-> m[k]],
               cache_size |-> cs - CacheLen(m[p].cache)]
         ELSE [map |-> [m EXCEPT ![p].n = @ - 1], cache_size |-> cs]
    ELSE [map |-> m, cache_size |-> cs]

\* a set_cache that forgets the bytes the slot held before
MutSetCacheNoSubtract(m, cs, p, new) ==
    IF p \in DOMAIN m /\ cs + new.len < MAX_CACHE_SIZE
    THEN [map |-> [m EXCEPT ![p].cache = new], cache_size |-> cs + new.len]
    ELSE [map |-> m, cache_size |-> cs]

\* a set_cache that lets the cache reach the budget
MutSetCacheAtBudget(m, cs, p, new) ==
    IF p \in DOMAIN m /\ (cs - CacheLen(m[p].cache)) + new.len <= MAX_CACHE_SIZE
    THEN [map |-> [m EXCEPT ![p].cache = new],
          cache_size |-> (cs - CacheLen(m[p].cache)) + new.len]
    ELSE [map |-> m, cache_size |-> cs]

\* main.rs:295-305: the pair (map, cache size) after set_cache
set_cache(m, cs, p, new) ==
    IF p \in DOMAIN m
    THEN LET new_cache_size == cs - CacheLen(m[p].cache)
         IN  IF new_cache_size + new.len < MAX_CACHE_SIZE
             THEN [map |-> [m EXCEPT ![p].cache = new],
                   cache_size |-> new_cache_size + new.len]
             ELSE [map |-> m, cache_size |-> cs]
    ELSE [map |-> m, cache_size |-> cs]

\* main.rs:112-120: the path handle_get serves for file_path
ServedPath(p) ==
    IF IsDir(p)
    THEN LET p1 == IF Exists(p \o <<"index_executable">>)
                   THEN p \o <<"index_executable">> ELSE p
         IN  IF Exists(p1 \o <<"index.html">>) THEN p1 \o <<"index.html">> ELSE p1
    ELSE p

\* main.rs:194-199: the path handle_post runs
PostPath(p) == IF Last(p) # "form_executable" THEN p \o <<"form_executable">> ELSE p

\* Mutex::lock on a mutex the calling thread already holds never returns:
\* it blocks for ever or panics (std::sync::Mutex::lock). "acquired" is what
\* main.rs:281 is written for.
RelockOutcomes == { "deadlock", "panic" }

\* the mutex can be taken by a shared.lock().unwrap()
LockFree == lock_holder = NoWorker /\ ~poisoned

----------------------------------------------------------------------------
(* The steps of a worker thread: handle_client, main.rs:46-82.  A step is  *)
(* a shared.lock() with what the thread does on its own around it.         *)

\* a response written to the client: what was sent, or the I/O error that
\* ended the handler
Responded(w, what, ok) == response' = [response EXCEPT ![w] = IF ok THEN what ELSE "error"]

\* main.rs:36-41 and 46-72: the listener accepts the next connection; its
\* thread resolves the request's path and reads the accessor count
Admit(w) ==
    /\ pc[w] = "idle"
    /\ IF w = 1 THEN TRUE ELSE pc[w - 1] # "idle"
    /\ LockFree
    /\ \E r \in Requests :
        /\ request' = [request EXCEPT ![w] = r]
        /\ file_path' = [file_path EXCEPT ![w] = ResolvePath(r.url)]
        /\ IF TooBusy(map, r)
           THEN /\ response' = [response EXCEPT ![w] = "503"]
                /\ pc' = [pc EXCEPT ![w] = "done"]
           ELSE /\ pc' = [pc EXCEPT ![w] = "access"]
                /\ UNCHANGED response
    /\ UNCHANGED <<access_number, served, new_cache, installed>>
    /\ UNCHANGED <<units, req_path, resolved, svars>>

\* main.rs:74-78: update_shared_data(.., Accessing), whose guard (main.rs:256)
\* is dropped when the function returns, then the handler up to its first
\* use of the shared state.  handle_post (main.rs:193-243) makes none;
\* handle_get (main.rs:111-189) makes none for a missing path and for
\* index_executable.
Access(w) ==
    /\ pc[w] = "access"
    /\ LockFree
    /\ access_number' = [access_number EXCEPT ![w] = AccessNumber(map, file_path[w])]
    /\ map' = Accessing(map, file_path[w])
    /\ \E ok \in BOOLEAN :
        IF request[w].method = "POST"
        THEN LET fp == PostPath(file_path[w])
             IN  /\ served' = [served EXCEPT ![w] = fp]
                 /\ IF ~Exists(fp) \/ ~IsFile(fp)
                    THEN Responded(w, "404", ok)
                    ELSE Responded(w, "exec", ok)
                 /\ pc' = [pc EXCEPT ![w] = "closing"]
        ELSE LET fp == ServedPath(file_path[w])
             IN  /\ served' = [served EXCEPT ![w] = fp]
                 /\ IF ~Exists(fp)
                    THEN /\ Responded(w, "404", ok)
                         /\ pc' = [pc EXCEPT ![w] = "closing"]
                    ELSE IF ~IsDir(fp) /\ Last(fp) = "index_executable"
                    THEN /\ Responded(w, "exec", ok)
                         /\ pc' = [pc EXCEPT ![w] = "closing"]
                    ELSE /\ ok
                         /\ pc' = [pc EXCEPT ![w] = "get_cache"]
                         /\ UNCHANGED response
    /\ UNCHANGED <<request, file_path, new_cache, installed>>
    /\ UNCHANGED <<units, req_path, resolved, cache_size, lock_holder, poisoned, crowd, raises>>

\* main.rs:125-140 (directory) and 157-181 (file): get_cache, and on a miss
\* what follows up to the next use of the shared state
GetCache(w) ==
    /\ pc[w] = "get_cache"
    /\ LockFree
    /\ \E ok \in BOOLEAN :
        IF get_cache(map, served[w]).some
        THEN /\ Responded(w, "cache", ok)
             /\ pc' = [pc EXCEPT ![w] = "closing"]
             /\ UNCHANGED new_cache
        ELSE IF IsDir(served[w])
        THEN \E size \in IndexSizes :
                /\ Responded(w, "index", ok)
                /\ IF ok
                   THEN /\ new_cache' = [new_cache EXCEPT ![w] = Some(served[w], size)]
                        /\ pc' = [pc EXCEPT ![w] = "set_cache"]
                   ELSE /\ pc' = [pc EXCEPT ![w] = "closing"]
                        /\ UNCHANGED new_cache
        ELSE \E opened \in BOOLEAN :
                IF ~opened
                THEN /\ Responded(w, "500", ok)
                     /\ pc' = [pc EXCEPT ![w] = "closing"]
                     /\ UNCHANGED new_cache
                ELSE IF access_number[w] = 1 /\ FsFiles[served[w]] < MAX_CACHE_FILE_SIZE
                THEN /\ ok
                     /\ pc' = [pc EXCEPT ![w] = "get_cache_size"]
                     /\ UNCHANGED <<response, new_cache>>
                ELSE /\ Responded(w, "disk", ok)
                     /\ pc' = [pc EXCEPT ![w] = "closing"]
                     /\ UNCHANGED new_cache
    /\ UNCHANGED <<request, file_path, access_number, served, installed>>
    /\ UNCHANGED <<units, req_path, resolved, svars>>

\* main.rs:165-178: get_cache_size, then the file is streamed, through
\* CachedReadFile (main.rs:96-107) when it is to be cached
GetCacheSize(w) ==
    /\ pc[w] = "get_cache_size"
    /\ LockFree
    /\ \E ok \in BOOLEAN :
        /\ Responded(w, "disk", ok)
        /\ IF cache_size < MAX_CACHE_SIZE /\ ok
           THEN /\ new_cache' = [new_cache EXCEPT ![w] = Some(served[w], FsFiles[served[w]])]
                /\ pc' = [pc EXCEPT ![w] = "set_cache"]
           ELSE /\ pc' = [pc EXCEPT ![w] = "closing"]
                /\ UNCHANGED new_cache
    /\ UNCHANGED <<request, file_path, access_number, served, installed>>
    /\ UNCHANGED <<units, req_path, resolved, svars>>

\* main.rs:141 and 174: set_cache(shared, &file_path, ..) with handle_get's
\* local file_path
SetCache(w) ==
    /\ pc[w] = "set_cache"
    /\ LockFree
    /\ LET p == served[w]
           r == set_cache(map, cache_size, p, new_cache[w])
       IN  /\ map' = r.map
           /\ cache_size' = r.cache_size
           /\ installed' = [installed EXCEPT ![w] =
                   IF p \notin DOMAIN map THEN "absent"
                   ELSE IF r.map[p].cache = new_cache[w] THEN "installed"
                   ELSE "rejected"]
           /\ raises' = IF r.cache_size > cache_size
                        THEN (p :> (IF p \in DOMAIN raises THEN raises[p] + 1 ELSE 1)) @@ raises
                        ELSE raises
    /\ pc' = [pc EXCEPT ![w] = "closing"]
    /\ UNCHANGED <<request, file_path, access_number, served, new_cache, response>>
    /\ UNCHANGED <<units, req_path, resolved, lock_holder, poisoned, crowd>>

\* main.rs:79, 256-278: update_shared_data(.., Closing) up to the sleep.
\* The MutexGuard of main.rs:256 is a temporary whose lifetime is extended
\* to the end of the function; drop(lock) at main.rs:278 drops a reference
\* to the map, not the guard, so the mutex stays locked.
ClosingLookup(w) ==
    /\ pc[w] = "closing"
    /\ LockFree
    /\ IF file_path[w] \in DOMAIN map
       THEN /\ lock_holder' = w
            /\ pc' = [pc EXCEPT ![w] = "sleeping"]
       ELSE /\ pc' = [pc EXCEPT ![w] = "done"]
            /\ UNCHANGED lock_holder
    /\ UNCHANGED <<request, file_path, access_number, served, new_cache, response, installed>>
    /\ UNCHANGED <<units, req_path, resolved, map, cache_size, poisoned, crowd, raises>>

\* main.rs:280-288: the sleep is over and the thread calls shared.lock()
\* again, holding the guard of main.rs:256
ClosingRelock(w) ==
    /\ pc[w] = "sleeping"
    /\ lock_holder = w
    /\ \E outcome \in RelockOutcomes :
        CASE outcome = "deadlock" ->
                /\ pc' = [pc EXCEPT ![w] = "deadlocked"]
                /\ UNCHANGED <<map, cache_size, lock_holder, poisoned>>
          [] outcome = "panic" ->
                /\ pc' = [pc EXCEPT ![w] = "panicked"]
                /\ lock_holder' = NoWorker
                /\ poisoned' = TRUE
                /\ UNCHANGED <<map, cache_size>>
          [] OTHER ->
                LET r == Decrement(map, cache_size, file_path[w])
                IN  /\ map' = r.map
                    /\ cache_size' = r.cache_size
                    /\ pc' = [pc EXCEPT ![w] = "done"]
                    /\ lock_holder' = NoWorker
                    /\ UNCHANGED poisoned
    /\ UNCHANGED <<request, file_path, access_number, served, new_cache, response, installed>>
    /\ UNCHANGED <<units, req_path, resolved, crowd, raises>>

\* the positions of a running thread whose next step is a shared.lock().unwrap()
LockingPcs == { "access", "get_cache", "get_cache_size", "set_cache", "closing" }

\* shared.lock().unwrap() on the poisoned mutex panics: the thread ends
PoisonPanic(w) ==
    /\ poisoned
    /\ pc[w] \in LockingPcs
    /\ pc' = [pc EXCEPT ![w] = "panicked"]
    /\ UNCHANGED <<request, file_path, access_number, served, new_cache, response, installed>>
    /\ UNCHANGED <<units, req_path, resolved, svars>>

Next ==
    \E w \in Workers :
        \/ Admit(w)
        \/ Access(w)
        \/ GetCache(w)
        \/ GetCacheSize(w)
        \/ SetCache(w)
        \/ ClosingLookup(w)
        \/ ClosingRelock(w)
        \/ PoisonPanic(w)

Spec == Init /\ [][Next]_vars

\* the steps of one worker thread
Thread(w) ==
    \/ Admit(w)
    \/ Access(w)
    \/ GetCache(w)
    \/ GetCacheSize(w)
    \/ SetCache(w)
    \/ ClosingLookup(w)
    \/ ClosingRelock(w)
    \/ PoisonPanic(w)

\* main.rs:40: every connection has an operating-system thread of its own,
\* which runs whenever it is not blocked on the mutex
FairSpec == Spec /\ \A w \in Workers : WF_vars(Thread(w))

----------------------------------------------------------------------------
(* Properties of the shared state *)

RECURSIVE SumCacheLen(_, _)
SumCacheLen(m, keys) ==
    IF keys = {} THEN 0
    ELSE LET k == CHOOSE x \in keys : TRUE
         IN  CacheLen(m[k].cache) + SumCacheLen(m, keys \ {k})

\* the worker has made its Accessing increment
Incremented(w) == served[w] # Unresolved

\* the workers counted in the entry of p: incremented and not decremented
Holders(p) == { w \in Workers : file_path[w] = p /\ Incremented(w) /\ pc[w] # "done" }

CrowdOf(p) == IF p = crowd.path THEN crowd.n ELSE 0

\* C2: cache_size (the second field of the shared tuple) equals the sum of
\* the lengths of the populated cache slots of the map, in every reachable
\* state.
C2_CacheConservation == cache_size = SumCacheLen(map, DOMAIN map)

\* two workers have installed into the same slot (the second replaced a
\* populated slot, with more bytes) and one of them has run its Closing
C2_Witness ==
    \E w1, w2 \in Workers :
        /\ w1 # w2
        /\ installed[w1] = "installed" /\ installed[w2] = "installed"
        /\ served[w1] = served[w2]
        /\ raises[served[w1]] = 2
        /\ pc[w1] = "deadlocked"
        /\ cache_size > 0

\* C3: the accessor count of every path is never negative, equals the
\* number of workers that have incremented it and not decremented it, and
\* is 0 (no entry) only when no worker holds the path.
C3_AccessorCount ==
    \A p \in DOMAIN map \cup { file_path[w] : w \in Workers } :
        /\ get_concurrent_accessors(map, p) >= 0
        /\ get_concurrent_accessors(map, p) = Cardinality(Holders(p)) + CrowdOf(p)
        /\ p \in DOMAIN map => map[p].n >= 1

\* all workers hold one path, with a Closing of one of them under way
C3_Witness ==
    \E p \in DOMAIN map :
        /\ crowd.n = 0
        /\ map[p].n = NumWorkers
        /\ \E w \in Holders(p) : pc[w] \in { "sleeping", "deadlocked" }

\* C4: while a worker sleeps in Closing the mutex is free, so that any
\* other worker can take it.
C4_SleepWithoutLock == \A w \in Workers : pc[w] = "sleeping" => LockFree

\* C5: a request whose resolved path has more than
\* MAX_CONCURRENT_ACCESSORS accessors at admission is answered 503, is not
\* counted and leaves the map and the cache size unchanged.
C5_AdmissionByResolvedPath ==
    [][\A w \in Workers :
        (pc[w] = "idle" /\ pc'[w] # "idle"
         /\ get_concurrent_accessors(map, file_path'[w]) > MAX_CONCURRENT_ACCESSORS)
        => (response'[w] = "503" /\ pc'[w] = "done"
            /\ map' = map /\ cache_size' = cache_size)]_vars

\* C6: of 5001 concurrent requests for one directory the 5001st, which
\* finds MAX_CONCURRENT_ACCESSORS accessors before it, is not admitted.
C6_Request5001Refused ==
    \A w \in Workers : Incremented(w) => access_number[w] < MAX_CONCURRENT_ACCESSORS

\* C7: for every path whose accessors are all first-time accesses of one
\* burst (no decrement has happened, no accessor came before), at most one
\* set_cache raises cache_size.
C7_AtMostOneRaisingInstall ==
    \A p \in DOMAIN raises : CrowdOf(p) = 0 => raises[p] <= 1

\* C8: a worker that populated a cache slot has access_number 1 and
\* installed fewer than MAX_CACHE_FILE_SIZE bytes.
C8_InstallPolicy ==
    \A w \in Workers :
        installed[w] = "installed" =>
            access_number[w] = 1 /\ new_cache[w].len < MAX_CACHE_FILE_SIZE

\* the install that set_cache is asked for would bring the cache to the budget
WouldReachBudget(w) ==
    /\ served[w] \in DOMAIN map
    /\ (cache_size - CacheLen(map[served[w]].cache)) + new_cache[w].len >= MAX_CACHE_SIZE

\* C9: cache_size stays strictly below MAX_CACHE_SIZE, and a set_cache whose
\* install (after subtracting the slot's previous content) would reach the
\* budget leaves the slot and cache_size unchanged.
C9_CacheBudget ==
    /\ [](cache_size < MAX_CACHE_SIZE)
    /\ [][\A w \in Workers :
            (pc[w] = "set_cache" /\ pc'[w] = "closing" /\ WouldReachBudget(w))
            => (map' = map /\ cache_size' = cache_size)]_vars

\* a set_cache into an empty slot has been rejected with the cache half
\* full: the install would have made it exactly MAX_CACHE_SIZE
C9_Witness ==
    \E w1, w2 \in Workers :
        /\ installed[w1] = "installed"
        /\ installed[w2] = "rejected"
        /\ ~map[served[w2]].cache.some
        /\ cache_size + new_cache[w2].len = MAX_CACHE_SIZE

\* the worker's Closing is over: its thread went through the 1 s hold
\* (or ended before)
ClosingOver(w) == pc[w] \in { "done", "deadlocked", "panicked" }

\* C10: every entry of the map has an accessor count >= 1 and a worker
\* holding its path: an entry (and its cache slot) does not outlive the
\* Closing of its last accessor.
C10_EntryHasAccessor ==
    \A p \in DOMAIN map :
        /\ map[p].n >= 1
        /\ \/ CrowdOf(p) > 0
           \/ \E w \in Workers : file_path[w] = p /\ Incremented(w) /\ ~ClosingOver(w)

\* the workers that have run Accessing on p
Entered(p) == { w \in Workers : file_path[w] = p /\ Incremented(w) }

\* C11: Accessing returns the count read just before its own increment (0
\* when it creates the entry at 1), read and increment being one step; the
\* k workers that entered a path, with no decrement in between, hold the k
\* distinct ordinals that follow the accessors before them (0..k-1 when
\* there were none) and the count is then k more.
C11_AccessOrdinal ==
    /\ [](\A p \in { file_path[w] : w \in Workers } :
            LET k == Cardinality(Entered(p))
            IN  /\ { access_number[w] : w \in Entered(p) }
                       = CrowdOf(p)..(CrowdOf(p) + k - 1)
                /\ k > 0 => get_concurrent_accessors(map, p) = CrowdOf(p) + k)
    /\ [][\A w \in Workers :
            (~Incremented(w) /\ Incremented(w)')
            => /\ access_number'[w] = get_concurrent_accessors(map, file_path[w])
               /\ get_concurrent_accessors(map', file_path[w]) = access_number'[w] + 1
               /\ (file_path[w] \notin DOMAIN map
                      => access_number'[w] = 0 /\ map'[file_path[w]].n = 1)]_vars

\* every worker has entered one path that had no entry: the ordinals are
\* 0..NumWorkers-1 and the count is NumWorkers
C11_Witness ==
    \E p \in DOMAIN map :
        /\ CrowdOf(p) = 0
        /\ Entered(p) = Workers
        /\ { access_number[w] : w \in Workers } = 0..(NumWorkers - 1)
        /\ map[p].n = NumWorkers

\* the worker's request is a GET of a regular file
GetsFile(w) == request[w].method = "GET" /\ IsFile(file_path[w])

\* the worker has been accepted with a GET of a file whose cache slot is
\* populated, and no holder of the file has been decremented
ArrivedAtPopulatedSlot(w) ==
    /\ pc[w] = "access"
    /\ GetsFile(w)
    /\ get_cache(map, file_path[w]).some

\* C12: of the overlapping GETs of one static file, the one with ordinal 0
\* installs nothing; an install into the file's slot is made by the one with
\* ordinal 1, after streaming, and holds the complete file; a later request
\* that arrives while the slot is populated, before the delayed decrement
\* of the last holder, is served from the cache (unless its client is gone).
C12_CacheScenario ==
    /\ [](\A w \in Workers :
            (Incremented(w) /\ GetsFile(w) /\ access_number[w] = 0)
            => (installed[w] = "none" /\ new_cache[w] = None))
    /\ [][\A w \in Workers :
            (pc[w] = "set_cache" /\ GetsFile(w) /\ installed'[w] = "installed")
            => /\ access_number[w] = 1
               /\ response[w] = "disk"
               /\ map'[served[w]].cache = Some(served[w], FsFiles[served[w]])]_vars
    /\ \A w \in Workers :
            ArrivedAtPopulatedSlot(w) ~> (response[w] \in { "cache", "error" })

\* the worker was admitted with GET /bob/../alice/secret
GetsBobUrl(w) == request[w] = [method |-> "GET", url |-> BobUrl] /\ Incremented(w)

\* C13 as stated: GET /bob/../alice/secret resolves to
\* /home/alice/www/secret and, that file being absent, is answered 404.
C13_ResolvesToAlice ==
    \A w \in Workers :
        GetsBobUrl(w) =>
            /\ file_path[w] = <<RootDir, "home", "alice", "www", "secret">>
            /\ response[w] \in { "404", "error" }

\* C13, amended: GET /bob/../alice/secret resolves to
\* /home/bob/www/alice/secret (the ".." is dropped, the user stays bob)
\* and, that file being absent, is answered 404 (unless the client is
\* gone).
C13_ResolvesToBob ==
    \A w \in Workers :
        GetsBobUrl(w) =>
            /\ file_path[w] = <<RootDir, "home", "bob", "www", "alice", "secret">>
            /\ served[w] = file_path[w]
            /\ response[w] \in { "404", "error" }

\* the request has been answered 404
C13_Witness == \E w \in Workers : GetsBobUrl(w) /\ response[w] = "404"

\* the files handle_get is never to serve
NeverServed == { "form_executable", "allowed_variables" }

\* C15: a GET whose resolved path ends in form_executable or
\* allowed_variables is never answered with the file, from disk or from
\* the cache, even when it exists; its answer is 404 (unless the client is
\* gone).
C15_TreatedAsMissing ==
    \A w \in Workers :
        (request[w].method = "GET" /\ Incremented(w) /\ Last(file_path[w]) \in NeverServed)
        => /\ response[w] \notin { "disk", "cache", "exec", "index" }
           /\ ClosingOver(w) => response[w] \in { "404", "error" }

\* the handler of worker w ends with an I/O error in this step
HandlerFails(w) == response[w] # "error" /\ response'[w] = "error"

\* C22: a worker whose handler ended with an I/O error after its Accessing
\* increment goes on to complete its Closing, which takes it out of its
\* path's accessor count, and the failing step changes no other worker's
\* position or response.
C22_ErrorStillCloses ==
    /\ \A w \in Workers : (response[w] = "error" /\ Incremented(w)) ~> (pc[w] = "done")
    /\ [][\A w \in Workers :
            HandlerFails(w)
            => \A v \in Workers \ {w} : pc'[v] = pc[v] /\ response'[v] = response[v]]_vars

\* C24: every worker that made its Accessing increment completes its
\* Closing decrement, and once all workers are through (none admitted
\* before them remaining) the map is empty and no cache bytes are in use.
C24_ClosingCompletes ==
    /\ \A w \in Workers : Incremented(w) ~> (pc[w] = "done")
    /\ []((crowd.n = 0 /\ \A w \in Workers : pc[w] = "done")
            => (map = <<>> /\ cache_size = 0))

\* C26: no path ever has more than MAX_CONCURRENT_ACCESSORS + 1 accessors.
C26_CountCapped ==
    \A p \in DOMAIN map : map[p].n <= MAX_CONCURRENT_ACCESSORS + 1

\* the positions of handle_get at which the cache slot is read or written
CachePcs == { "get_cache", "get_cache_size", "set_cache" }

\* C27: the path under which a GET reads and writes the cache is the path
\* whose accessor count it incremented, so that its set_cache finds the
\* entry: also for a directory served through its index.html.
C27_SlotOfCountedEntry ==
    \A w \in Workers :
        /\ (request[w].method = "GET" /\ pc[w] \in CachePcs) => served[w] = file_path[w]
        /\ installed[w] # "absent"

----------------------------------------------------------------------------
(* Path resolution alone, over every URL path up to MaxUrlLen tokens *)

\* any URL path the codec can hand to handle_client, not yet resolved
InitResolve ==
    /\ req_path \in AllUrls
    /\ resolved = Unresolved
    /\ InitShared([path |-> Home, n |-> 0])
    /\ InitWorkers
    /\ UnitsIdle

Resolve ==
    /\ resolved = Unresolved
    /\ resolved' = ResolvePath(req_path)
    /\ UNCHANGED <<req_path, svars, wvars, units>>

NextResolve == Resolve

SpecResolve == InitResolve /\ [][NextResolve]_vars

\* C1: the path computed by handle_client for any URL path is /home or a
\* strict descendant of /home, and has no ".." component.
C1_Sandbox ==
    resolved # Unresolved =>
        /\ IsPrefix(Home, resolved)
        /\ ParentDir \notin Elems(resolved)

\* a URL with "..", ".", a repeated separator and no leading separator has
\* been resolved to a strict descendant of /home
C1_Witness ==
    /\ resolved # Unresolved
    /\ ParentDir \in Elems(req_path)
    /\ CurDir \in Elems(req_path)
    /\ req_path[1] # "/"
    /\ \E i \in 1..(Len(req_path) - 1) : req_path[i] = "/" /\ req_path[i + 1] = "/"
    /\ Len(resolved) > Len(Home)

----------------------------------------------------------------------------
(* filter_env_variables alone, on the keys of a GET query or of a          *)
(* key-value form.  A key is a sequence of characters.                     *)

\* longest key, in characters
MaxKeyLen == 2

\* most keys in a query, and most names in allowed_variables
MaxKeys == 2

\* a lower-case letter, its upper-case form, and a character without case
Chars == { "a", "A", "1" }

Keys == UNION { [1..n -> Chars] : n \in 1..MaxKeyLen }

\* char::to_uppercase
UpperChar(c) == IF c = "a" THEN "A" ELSE c

\* str::to_uppercase
to_uppercase(k) == [i \in 1..Len(k) |-> UpperChar(k[i])]

\* the variables set in the environment of the server: env::var(k).is_ok()
ServerEnv == { <<"A">>, <<"a", "1">> }

UpTo(S, n) == { T \in SUBSET S : Cardinality(T) <= n }

\* main.rs:327-334: the keys left in vars
filter_env_variables(vs) ==
    { var \in vs : ~(var \in ServerEnv \/ var = to_uppercase(var)) }

\* a request with any keys, for an executable beside any allowed_variables
InitEnv ==
    /\ query \in UpTo(Keys, MaxKeys)
    /\ allowed \in UpTo(Keys, MaxKeys)
    /\ child_env = NotSpawned
    /\ spawned = "none"
    /\ DispatcherIdle
    /\ CopyIdle
    /\ ReaderIdle
    /\ IndexIdle

\* main.rs:143-150: GET of an index_executable; the query is filtered and
\* becomes the environment of the child
SpawnIndexExecutable ==
    /\ spawned = "none"
    /\ child_env' = filter_env_variables(query)
    /\ spawned' = "index_executable"
    /\ UNCHANGED <<query, allowed, dispatcher, cvars, fvars, ivars>>

\* main.rs:206-217, 228: POST of a key-value form to a form_executable
SpawnFormExecutable ==
    /\ spawned = "none"
    /\ child_env' = filter_env_variables(query)
    /\ spawned' = "form_executable"
    /\ UNCHANGED <<query, allowed, dispatcher, cvars, fvars, ivars>>

NextEnv == SpawnIndexExecutable \/ SpawnFormExecutable

SpecEnv == InitEnv /\ [][NextEnv]_vars

\* C14: the keys passed to index_executable or form_executable as
\* environment variables are exactly the keys of the request that are
\* listed in allowed_variables, are not set in the environment of the
\* server and differ from their upper-case form.
C14_OnlyAllowedKeys ==
    spawned # "none" =>
        child_env = { k \in query : /\ k \in allowed
                                    /\ k \notin ServerEnv
                                    /\ k # to_uppercase(k) }

----------------------------------------------------------------------------
(* The thread of handle_post that copies a stream body to the child,       *)
(* main.rs:231-238                                                         *)

\* length of the copy buffer; stands for the 4096 of main.rs:232
CopyBufferLen == 2

\* longest request body, in bytes
MaxBodyLen == 4

\* values of a byte of the body
Bytes == { 0, 1 }

Bodies == UNION { [1..n -> Bytes] : n \in 0..MaxBodyLen }

Min(a, b) == IF a < b THEN a ELSE b

\* main.rs:228-232: the child is spawned with a piped stdin and the thread
\* starts with a zeroed buffer, for any body
InitCopy ==
    /\ body \in Bodies
    /\ body_pos = 0
    /\ buffer = [i \in 1..CopyBufferLen |-> 0]
    /\ stdin = <<>>
    /\ copy_pc = "copying"
    /\ DispatcherIdle
    /\ EnvIdle
    /\ ReaderIdle
    /\ IndexIdle

\* Read::read into a buffer: the first n bytes are replaced
ReadInto(buf, data) ==
    [i \in 1..Len(buf) |-> IF i <= Len(data) THEN data[i] ELSE buf[i]]

\* main.rs:233-236: reader.read(&mut buffer) returns Ok(n) with n > 0, any
\* number of bytes the stream has ready; stdin.write_all(&buffer) follows
CopyChunk ==
    /\ copy_pc = "copying"
    /\ \E n \in 1..Min(CopyBufferLen, Len(body) - body_pos) :
        LET filled == ReadInto(buffer, SubSeq(body, body_pos + 1, body_pos + n))
        IN  /\ buffer' = filled
            /\ body_pos' = body_pos + n
            /\ stdin' = stdin \o filled
    /\ UNCHANGED <<body, copy_pc, dispatcher, evars, fvars, ivars>>

\* main.rs:234: read returns Ok(0) at the end of the body
CopyEof ==
    /\ copy_pc = "copying"
    /\ body_pos = Len(body)
    /\ copy_pc' = "eof"
    /\ UNCHANGED <<body, body_pos, buffer, stdin, dispatcher, evars, fvars, ivars>>

\* main.rs:233: read returns Err and the while let ends the loop
CopyReadError ==
    /\ copy_pc = "copying"
    /\ copy_pc' = "read_error"
    /\ UNCHANGED <<body, body_pos, buffer, stdin, dispatcher, evars, fvars, ivars>>

NextCopy == CopyChunk \/ CopyEof \/ CopyReadError

SpecCopy == InitCopy /\ [][NextCopy]_vars

\* C20: the bytes delivered to the child's standard input are the bytes
\* read from the body stream so far, in order and with nothing added, and
\* at end of stream they are the whole body.
C20_ExactCopy ==
    /\ stdin = SubSeq(body, 1, body_pos)
    /\ copy_pc = "eof" => stdin = body

----------------------------------------------------------------------------
(* The transcluding reader, file_reader.rs.  A byte is one of the three    *)
(* sentinels, a letter, or a byte that is not valid UTF-8.  The reader is  *)
(* opened on a file of a directory that also holds a plain file "t" and    *)
(* an HTML file "h"; no other name exists in it.  The file it is opened   *)
(* on is "r".                                                              *)

\* length of a frame's buffer; stands for the 1024 of file_reader.rs:9
BUFFER_SIZE == 4

MAX_TRANSCLUDE_DEPTH == 10

TRANSCLUDE_START_BYTE == "{"

TRANSCLUDE_END_BYTE == "}"

ESCAPE_BYTE == "\\"

\* a byte that occurs in no UTF-8 text
InvalidByte == "x"

PlainBytes == { "a", InvalidByte }

FileBytes == { TRANSCLUDE_START_BYTE, TRANSCLUDE_END_BYTE, ESCAPE_BYTE, "t", "h", InvalidByte }

\* capacity of a BufReader (file_reader.rs:96); std's default is 8 KiB,
\* eight frame buffers, here two
BufReaderCapacity == 2 * BUFFER_SIZE

\* the path the reader was opened on
RootPath == <<"r">>

\* the directory of the files: what d.path.parent().join("") names
DirPath == <<>>

\* Path::exists of a relative path joined to the directory of the files,
\* among them the file the reader was opened on
PathExists(path) == path \in { DirPath, RootPath, <<"t">>, <<"h">> }

\* file_reader.rs:241-247, by the extension of the path
is_transclude_enabled(path, rh) == path = <<"h">> \/ (path = RootPath /\ rh)

\* the bytes of the file at a path
FileContent(path, r, i) == IF path = RootPath THEN r ELSE i

\* file_reader.rs:95-102: the ReaderData of a file just opened; off is the
\* position of the BufReader in the file, avail the bytes it holds
NewReaderData(path, rh) ==
    [path |-> path,
     html |-> is_transclude_enabled(path, rh),
     off |-> 0,
     avail |-> 0,
     buf |-> [k \in 1..BUFFER_SIZE |-> "0"],
     start |-> 0,
     end |-> 0]

\* an add_file that still pushes onto a stack of MAX_TRANSCLUDE_DEPTH frames
MutAddFileAtLimit(rs, path, rh) ==
    IF Len(rs) <= MAX_TRANSCLUDE_DEPTH THEN Append(rs, NewReaderData(path, rh)) ELSE rs

\* an add_file that, on a full stack, opens the file in place of the top
\* frame
MutAddFileOverTop(rs, path, rh) ==
    IF Len(rs) < MAX_TRANSCLUDE_DEPTH THEN Append(rs, NewReaderData(path, rh))
    ELSE [rs EXCEPT ![Len(rs)] = NewReaderData(path, rh)]

\* file_reader.rs:88-106: open never fails on an existing path; beyond the
\* depth limit nothing is pushed
add_file(rs, path, rh) ==
    IF Len(rs) < MAX_TRANSCLUDE_DEPTH THEN Append(rs, NewReaderData(path, rh)) ELSE rs

\* BufReader::read of at most space bytes: an empty BufReader is filled
\* from the file first, then hands out what it holds
BufRead(d, content, space) ==
    LET held == IF d.avail = 0 /\ space > 0
                THEN Min(BufReaderCapacity, Len(content) - d.off)
                ELSE d.avail
        n == Min(space, held)
    IN  [n |-> n,
         bytes |-> SubSeq(content, d.off + 1, d.off + n),
         d |-> [d EXCEPT !.off = @ + n, !.avail = held - n]]

\* file_reader.rs:40-58, EscapeCounter::next: the result and the new count
EscapeNext(count, byte) ==
    [r |-> IF count % 2 = 0
           THEN (IF byte = ESCAPE_BYTE THEN "Skip" ELSE "Parse")
           ELSE "NoParse",
     count |-> IF byte = ESCAPE_BYTE THEN count + 1 ELSE 0]

\* file_reader.rs:159-192: the inner loop of read on the state
\* [d, ec, emitted, room]; it stops at the end of the window, when
\* read_into is full, or on a TRANSCLUDE_START_BYTE to parse (brace)
RECURSIVE ScanLoop(_)
ScanLoop(s) ==
    IF ~(s.d.start < s.d.end /\ s.room > 0) THEN s
    ELSE LET byte == s.d.buf[s.d.start + 1]
             e == EscapeNext(s.ec, byte)
         IN  IF e.r = "Parse" /\ byte = TRANSCLUDE_START_BYTE
             THEN [s EXCEPT !.ec = e.count, !.brace = TRUE]
             ELSE IF e.r = "Skip"
             THEN ScanLoop([s EXCEPT !.ec = e.count, !.d.start = @ + 1])
             ELSE ScanLoop([s EXCEPT !.ec = e.count, !.d.start = @ + 1,
                                     !.emitted = Append(@, byte), !.room = @ - 1])

\* str::from_utf8 of the bytes of a directive
from_utf8_ok(text) == \A k \in 1..Len(text) : text[k] # InvalidByte

\* file_reader.rs:199-239, transclude, on the state [d, bytes_written, ec]:
\* the bytes of the directive are moved to the front of d.buf as they are
\* scanned.  The result is d and the path found, if any.
RECURSIVE TranscludeLoop(_)
TranscludeLoop(s) ==
    IF ~(s.d.start < s.d.end) THEN [d |-> s.d, some |-> FALSE, path |-> <<>>]
    ELSE LET byte == s.d.buf[s.d.start + 1]
             e == EscapeNext(s.ec, byte)
         IN  IF e.r = "Parse" /\ byte = TRANSCLUDE_END_BYTE
             THEN LET text == SubSeq(s.d.buf, 2, s.bytes_written)
                  IN  [d |-> [s.d EXCEPT !.start = @ + 1],
                       some |-> from_utf8_ok(text) /\ PathExists(text),
                       path |-> text]
             ELSE IF e.r = "Skip"
             THEN TranscludeLoop([s EXCEPT !.ec = e.count, !.d.start = @ + 1])
             ELSE TranscludeLoop([s EXCEPT !.ec = e.count, !.d.start = @ + 1,
                                           !.d.buf[s.bytes_written + 1] = byte,
                                           !.bytes_written = @ + 1])

transclude(d) == TranscludeLoop([d |-> d, bytes_written |-> 0, ec |-> 0])

\* file_reader.rs:163-166: the window is moved to the front of d.buf and
\* topped up from the file
ShiftAndFill(d, content) ==
    LET kept == d.end - d.start
        moved == [k \in 1..BUFFER_SIZE |->
                    IF k + d.start <= BUFFER_SIZE THEN d.buf[k + d.start] ELSE d.buf[k]]
        more == BufRead(d, content, BUFFER_SIZE - kept)
    IN  [more.d EXCEPT
            !.buf = [k \in 1..BUFFER_SIZE |->
                        IF k > kept /\ k <= kept + more.n THEN more.bytes[k - kept]
                        ELSE moved[k]],
            !.end = kept + more.n,
            !.start = 0]

\* a refill that leaves d.start where it was
MutRefillKeepStart(d, content) ==
    LET got == BufRead(d, content, BUFFER_SIZE)
    IN  [n |-> got.n,
         d |-> [got.d EXCEPT !.buf = ReadInto(@, got.bytes), !.end = got.n]]

\* file_reader.rs:150-151: the window is filled from the file
Refill(d, content) ==
    LET got == BufRead(d, content, BUFFER_SIZE)
    IN  [n |-> got.n,
         d |-> [got.d EXCEPT !.buf = ReadInto(@, got.bytes), !.end = got.n, !.start = 0]]

ReplaceTop(rs, d) == [rs EXCEPT ![Len(rs)] = d]

Pop(rs) == SubSeq(rs, 1, Len(rs) - 1)

\* the read returns Ok(w); respond_chunked (client.rs:291-295) stops at 0
Returned(w) == IF w = 0 THEN "eof" ELSE "idle"

\* longest file the reader is opened on, in bytes
MaxFileLen == 5

\* longest file of unparsed bytes the reader is opened on
MaxPlainLen == 9

\* longest buffer the consumer reads into
MaxReadLen == 5

\* longest file a directive can name
MaxIncLen == 1

SeqsUpTo(S, n) == UNION { [1..k -> S] : k \in 0..n }

\* file_reader.rs:76-86, FileReader::new on the file r
InitFileReader(r, rh, i) ==
    /\ root = r
    /\ root_html = rh
    /\ inc = i
    /\ readers = add_file(<<>>, RootPath, rh)
    /\ out = <<>>
    /\ rd_pc = "idle"
    /\ read_len = 0
    /\ written = 0
    /\ ec = 0
    /\ pushed = 0
    /\ DispatcherIdle
    /\ EnvIdle
    /\ CopyIdle
    /\ IndexIdle

\* an HTML file of any bytes, beside files of letters
InitReader ==
    \E r \in SeqsUpTo(FileBytes, MaxFileLen), i \in SeqsUpTo({"a"}, MaxIncLen) :
        InitFileReader(r, TRUE, i)

\* file_reader.rs:127-131: the consumer calls read with a buffer of any
\* length
BeginRead ==
    /\ rd_pc = "idle"
    /\ \E len \in 1..MaxReadLen : read_len' = len
    /\ written' = 0
    /\ ec' = 0
    /\ rd_pc' = "in_read"
    /\ UNCHANGED <<root, root_html, inc, readers, out, pushed, dispatcher, evars, cvars, ivars>>

\* file_reader.rs:195: the read returns Ok(w) and its locals are gone
Return(w) ==
    /\ rd_pc' = Returned(w)
    /\ read_len' = 0
    /\ written' = 0
    /\ ec' = 0

\* file_reader.rs:131: the loop goes on if read_into is not full
LoopOrReturn(w, count) ==
    IF w < read_len
    THEN /\ rd_pc' = "in_read"
         /\ written' = w
         /\ ec' = count
         /\ UNCHANGED read_len
    ELSE Return(w)

\* file_reader.rs:132-135: no frame is left and the read returns
StepEmpty ==
    /\ rd_pc = "in_read"
    /\ readers = <<>>
    /\ Return(written)
    /\ UNCHANGED <<root, root_html, inc, readers, out, pushed, dispatcher, evars, cvars, ivars>>

\* file_reader.rs:137-147: one turn of the loop on a frame that is not
\* parsed; reading a directory fails
StepPlain ==
    /\ rd_pc = "in_read"
    /\ readers # <<>>
    /\ LET d == readers[Len(readers)]
           got == BufRead(d, FileContent(d.path, root, inc), read_len - written)
       IN  /\ ~d.html
           /\ IF d.path = DirPath
              THEN /\ rd_pc' = "error"
                   /\ UNCHANGED <<readers, out, read_len, written, ec>>
              ELSE /\ out' = out \o got.bytes
                   /\ readers' = IF got.n = 0 THEN Pop(readers) ELSE ReplaceTop(readers, got.d)
                   /\ LoopOrReturn(written + got.n, ec)
    /\ UNCHANGED <<root, root_html, inc, pushed, dispatcher, evars, cvars, ivars>>

\* file_reader.rs:149-192: one turn of the loop on a parsed frame: the
\* window is refilled when it is used up (an empty refill pops the frame
\* and ends the read), then scanned up to a directive, which is looked up
\* with transclude
StepHtml ==
    /\ rd_pc = "in_read"
    /\ readers # <<>>
    /\ LET d == readers[Len(readers)]
           content == FileContent(d.path, root, inc)
           refill == d.start >= d.end
           got == Refill(d, content)
           d1 == IF refill THEN got.d ELSE d
           s == ScanLoop([d |-> d1, ec |-> ec, emitted |-> <<>>,
                          room |-> read_len - written, brace |-> FALSE])
           t == transclude(ShiftAndFill(s.d, content))
       IN  /\ d.html
           /\ IF refill /\ got.n = 0
              THEN /\ readers' = Pop(readers)
                   /\ Return(written)
                   /\ UNCHANGED <<out, pushed>>
              ELSE /\ out' = out \o s.emitted
                   /\ IF ~s.brace
                      THEN /\ readers' = ReplaceTop(readers, s.d)
                           /\ LoopOrReturn(written + Len(s.emitted), s.ec)
                           /\ UNCHANGED pushed
                      ELSE IF t.some
                      THEN /\ readers' = add_file(ReplaceTop(readers, t.d), t.path, root_html)
                           /\ LoopOrReturn(written + Len(s.emitted), s.ec)
                           /\ pushed' = pushed + (Len(readers') - Len(readers))
                      ELSE /\ readers' = ReplaceTop(readers, [t.d EXCEPT !.start = 0])
                           /\ LoopOrReturn(written + Len(s.emitted), 1)
                           /\ UNCHANGED pushed
    /\ UNCHANGED <<root, root_html, inc, dispatcher, evars, cvars, ivars>>

NextReader == BeginRead \/ StepEmpty \/ StepPlain \/ StepHtml

SpecReader == InitReader /\ [][NextReader]_vars

\* a file without sentinels, parsed or not, beside an empty file
InitPlain ==
    \E r \in SeqsUpTo(PlainBytes, MaxPlainLen), rh \in BOOLEAN :
        InitFileReader(r, rh, <<>>)

SpecPlain == InitPlain /\ [][NextReader]_vars

Sentinels == { TRANSCLUDE_START_BYTE, TRANSCLUDE_END_BYTE, ESCAPE_BYTE }

\* C16: of an HTML file without "{", "}" and "\\" the consumer has always
\* received a prefix, and has received the whole file when read returns 0,
\* for every length of the file and every sequence of read lengths.
C16_PlainFixedPoint ==
    (root_html /\ Elems(root) \cap Sentinels = {}) =>
        /\ Len(out) <= Len(root)
        /\ out = SubSeq(root, 1, Len(out))
        /\ rd_pc = "eof" => out = root
        /\ rd_pc # "error"

\* an HTML file longer than two frame buffers (and than the BufReader),
\* of a length that is no multiple of the frame buffer, has been read to
\* the end
C16_Witness ==
    /\ root_html
    /\ rd_pc = "eof"
    /\ Len(root) > 2 * BUFFER_SIZE
    /\ Len(root) % BUFFER_SIZE # 0
    /\ out = root

----------------------------------------------------------------------------
(* What the reader is to deliver.  A backslash makes the byte after it     *)
(* literal and is dropped; "{" not made literal opens a directive, which   *)
(* runs to the next "}" not made literal.                                  *)

\* the position of the "}" that closes a directive whose text starts at
\* position i of f, or 0
RECURSIVE CloseOf(_, _)
CloseOf(f, i) ==
    IF i > Len(f) THEN 0
    ELSE IF f[i] = ESCAPE_BYTE THEN CloseOf(f, i + 2)
    ELSE IF f[i] = TRANSCLUDE_END_BYTE THEN i
    ELSE CloseOf(f, i + 1)

\* the bytes f[i..j] without the backslashes that make a byte literal
RECURSIVE Unescape(_, _, _)
Unescape(f, i, j) ==
    IF i > j THEN <<>>
    ELSE IF f[i] = ESCAPE_BYTE
    THEN (IF i + 1 > j THEN <<>> ELSE <<f[i + 1]>> \o Unescape(f, i + 2, j))
    ELSE <<f[i]>> \o Unescape(f, i + 1, j)

\* the directive that opens at position i of f names a file
Includes(f, i) ==
    LET c == CloseOf(f, i + 1)
    IN  c # 0 /\ Unescape(f, i + 1, c - 1) \in { <<"t">>, <<"h">> }

\* the bytes to deliver for f from position i on, the files named by
\* directives holding the unparsed bytes sub
RECURSIVE Expansion(_, _, _)
Expansion(f, i, sub) ==
    IF i > Len(f) THEN <<>>
    ELSE IF f[i] = ESCAPE_BYTE
    THEN (IF i + 1 > Len(f) THEN <<>> ELSE <<f[i + 1]>> \o Expansion(f, i + 2, sub))
    ELSE IF f[i] = TRANSCLUDE_START_BYTE /\ Includes(f, i)
    THEN sub \o Expansion(f, CloseOf(f, i + 1) + 1, sub)
    ELSE <<f[i]>> \o Expansion(f, i + 1, sub)

\* the consumer was told the end of the stream, and the reader is
\* exhausted
ReadToEnd == rd_pc = "eof" /\ readers = <<>>

\* C17: of an HTML file with backslashes the reader delivers what the
\* escape law gives: of a run of backslashes every second one, a sentinel
\* after an odd run as a literal byte, a "{" after an even run as the
\* start of a directive (expanded if it names a file, literal if not),
\* whatever the lengths of the reads.
C17_EscapeLaw ==
    (ESCAPE_BYTE \in Elems(root) /\ ReadToEnd) => out = Expansion(root, 1, inc)

NoSentinel(f, i, j) == \A k \in i..j : f[k] \notin Sentinels

\* f is P1 "{" c "}" P2 with the directive at position i: P1 and P2 hold
\* no sentinel and c names one of the two files
IncludeAt(f, i) ==
    /\ i + 2 <= Len(f)
    /\ f[i] = TRANSCLUDE_START_BYTE
    /\ f[i + 1] \in { "t", "h" }
    /\ f[i + 2] = TRANSCLUDE_END_BYTE
    /\ NoSentinel(f, 1, i - 1)
    /\ NoSentinel(f, i + 3, Len(f))

\* C18: of an HTML file P1 "{" c "}" P2, c an existing file, the consumer
\* that reads until read returns 0 has received P1, the bytes of c and P2,
\* whatever c holds and wherever the directive stands.
C18_IncludeThenResume ==
    \A i \in 1..Len(root) :
        (IncludeAt(root, i) /\ rd_pc = "eof")
        => out = SubSeq(root, 1, i - 1) \o inc \o SubSeq(root, i + 3, Len(root))

\* the backslashes that stand just before position k of f, from position
\* low on
RECURSIVE EscapesBefore(_, _, _)
EscapesBefore(f, k, low) ==
    IF k - 1 >= low /\ f[k - 1] = ESCAPE_BYTE THEN 1 + EscapesBefore(f, k - 1, low) ELSE 0

\* f is P "{" D: P holds no sentinel, D opens no directive, and the
\* directive at position i is not closed or names nothing that exists
FailedDirectiveAt(f, i) ==
    /\ i <= Len(f)
    /\ f[i] = TRANSCLUDE_START_BYTE
    /\ NoSentinel(f, 1, i - 1)
    /\ \A k \in (i + 1)..Len(f) :
            f[k] = TRANSCLUDE_START_BYTE => EscapesBefore(f, k, i + 1) % 2 = 1
    /\ LET c == CloseOf(f, i + 1)
       IN  c = 0 \/ ~PathExists(Unescape(f, i + 1, c - 1))
                 \/ ~from_utf8_ok(Unescape(f, i + 1, c - 1))

\* C19: of an HTML file whose only directive fails, the reader pushes no
\* frame and delivers the bytes before the "{", the "{", and the bytes
\* after it parsed as ordinary text (escapes honoured), nothing lost or
\* changed.
C19_FailedDirectiveLiteral ==
    \A i \in 1..Len(root) :
        FailedDirectiveAt(root, i)
        => /\ pushed = 0
           /\ rd_pc # "error"
           /\ rd_pc = "eof"
                => out = SubSeq(root, 1, i) \o Unescape(root, i + 1, Len(root))

\* C25: a read told the consumer the end of the stream (it returned 0 for
\* a buffer that is not empty) only with an empty frame stack.
C25_ZeroOnlyWhenEmpty == rd_pc = "eof" => readers = <<>>

----------------------------------------------------------------------------
(* The reader on files that include each other: the file it is opened on   *)
(* and the HTML file "h" hold letters around at most one directive, which  *)
(* names the opened file, "h" or the plain file "t".                       *)

\* most letters before and after the directive of a file
MaxPadLen == 1

Directive(name) == <<TRANSCLUDE_START_BYTE, name, TRANSCLUDE_END_BYTE>>

Directives == { <<>>, Directive("r"), Directive("h"), Directive("t") }

IncludingFiles ==
    { before \o dv \o after :
        before \in SeqsUpTo({"a"}, MaxPadLen),
        dv \in Directives,
        after \in SeqsUpTo({"a"}, MaxPadLen) }

InitCycle ==
    \E r \in IncludingFiles, i \in IncludingFiles : InitFileReader(r, TRUE, i)

SpecCycle == InitCycle /\ [][NextReader]_vars

\* StepHtml can be taken: a read is under way on a parsed frame
HtmlPending == rd_pc = "in_read" /\ readers # <<>> /\ readers[Len(readers)].html

\* weak fairness of StepHtml, with HtmlPending for its enabling condition
FairStepHtml == []<>(~HtmlPending) \/ []<><<StepHtml>>_vars

\* client.rs:291-295: respond_chunked calls read again until it returns 0
\* or fails, and its thread runs every read to its return
FairSpecCycle ==
    /\ SpecCycle
    /\ WF_vars(BeginRead)
    /\ WF_vars(StepEmpty)
    /\ WF_vars(StepPlain)
    /\ FairStepHtml

\* C23: the frame stack never holds more than MAX_TRANSCLUDE_DEPTH frames,
\* also for files that include themselves or each other.
C23_DepthCapped == Len(readers) <= MAX_TRANSCLUDE_DEPTH

\* a self-including or mutually including file has filled the stack
C23_Witness ==
    /\ Len(readers) = MAX_TRANSCLUDE_DEPTH
    /\ \A k \in 1..Len(readers) : readers[k].html

HasDirective(f, name) ==
    \E k \in 1..(Len(f) - 2) : SubSeq(f, k, k + 2) = Directive(name)

\* the opened file includes itself, directly or through "h"
Cyclic ==
    \/ HasDirective(root, "r")
    \/ HasDirective(root, "h") /\ (HasDirective(inc, "h") \/ HasDirective(inc, "r"))

\* C28: reading an HTML file whose includes form a cycle ends: a read
\* returns 0 after finitely many reads, and the output never exceeds what
\* MAX_TRANSCLUDE_DEPTH frames can deliver.
C28_CycleTerminates ==
    /\ (Cyclic /\ rd_pc = "idle") ~> (rd_pc = "eof")
    /\ [](Cyclic => Len(out) <= MAX_TRANSCLUDE_DEPTH * (Len(root) + Len(inc)))

\* the read of a cyclic file has ended after the stack was filled
C28_Witness ==
    /\ Cyclic
    /\ rd_pc = "eof"
    /\ pushed = MAX_TRANSCLUDE_DEPTH - 1

----------------------------------------------------------------------------
(* The autoindex generator, auto_index.rs: the entries of a directory are  *)
(* filtered, sorted and cut to a page.  usize has UsizeBits bits; an       *)
(* overflow panics in a build with overflow checks and wraps in one        *)
(* without.                                                                *)

\* width of usize in bits; stands for 64
UsizeBits == 3

UsizeModulus == 2 ^ UsizeBits

\* most distinct modification times of the entries of a directory
MaxTime == 2

\* auto_index.rs:9-17
is_special_file_name(file_name) ==
    file_name \in { "header.html", "footer.html", "styles.css", "title" }

\* the names a directory can hold
EntryNames == { "title", "a", "b", "c" }

Metadata == [is_dir : BOOLEAN, modified : 1..MaxTime]

\* the directories generate_index is called on: any set of the names, the
\* control file a regular file
Directories ==
    { d \in UNION { [S -> Metadata] : S \in SUBSET EntryNames } :
        "title" \in DOMAIN d => d["title"] = [is_dir |-> FALSE, modified |-> 1] }

\* auto_index.rs:34-42, the comparator: e1 is to come after e2
Greater(d, e1, e2) ==
    IF ~d[e1].is_dir /\ d[e2].is_dir THEN TRUE
    ELSE IF d[e1].is_dir /\ ~d[e2].is_dir THEN FALSE
    ELSE d[e2].modified > d[e1].modified

\* auto_index.rs:24-31: the entries that are listed (the filter f admits
\* every entry, main.rs:138)
Listable(d) == { name \in DOMAIN d : ~is_special_file_name(name) }

\* auto_index.rs:34-42: what sort_unstable_by can leave, entries that
\* compare equal in any order
SortedEntries(d) ==
    { es \in [1..Cardinality(Listable(d)) -> Listable(d)] :
        /\ \A i, j \in DOMAIN es : i # j => es[i] # es[j]
        /\ \A i, j \in DOMAIN es : i < j => ~Greater(d, es[i], es[j]) }

\* usize arithmetic without overflow checks
WrappingAdd(a, b) == (a + b) % UsizeModulus

WrappingSub(a, b) == (a - b + UsizeModulus) % UsizeModulus

WrappingMul(a, b) == (a * b) % UsizeModulus

\* auto_index.rs:84-87 and 122 in a build with overflow checks: one of the
\* operations panics
Overflows(len, size, number) ==
    \/ len + size >= UsizeModulus
    \/ len - 1 < 0
    \/ number * size >= UsizeModulus
    \/ Min(number * size, len - 1) + size >= UsizeModulus
    \/ number + 1 >= UsizeModulus

\* auto_index.rs:94, &entries[start..=end]: the index is out of range
SlicePanics(len, start, end) ==
    \/ end = UsizeModulus - 1
    \/ start > end + 1
    \/ end + 1 > len

InitIndex ==
    /\ dir_entries \in Directories
    /\ page_size \in 0..(UsizeModulus - 1)
    /\ page_number \in 0..(UsizeModulus - 1)
    /\ overflow_checks \in BOOLEAN
    /\ ix_pc = "called"
    /\ page = NoPage
    /\ DispatcherIdle
    /\ EnvIdle
    /\ CopyIdle
    /\ ReaderIdle

\* auto_index.rs:19-42, 69-81: page_size is 0 and every entry is listed
ListAll ==
    /\ ix_pc = "called"
    /\ page_size = 0
    /\ \E entries \in SortedEntries(dir_entries) :
            page' = [NoPage EXCEPT !.listed = entries]
    /\ ix_pc' = "ok"
    /\ UNCHANGED <<dir_entries, page_size, page_number, overflow_checks>>
    /\ UNCHANGED <<dispatcher, evars, cvars, fvars>>

\* auto_index.rs:19-42, 82-130: the entries of one page and the
\* pagination controls
Paginate ==
    /\ ix_pc = "called"
    /\ page_size # 0
    /\ \E entries \in SortedEntries(dir_entries) :
        LET len == Len(entries)
            num_pages == WrappingSub(WrappingAdd(len, page_size), 1) \div page_size
            last_index == WrappingSub(len, 1)
            start == Min(WrappingMul(page_number, page_size), last_index)
            end == Min(WrappingSub(WrappingAdd(start, page_size), 1), last_index)
        IN  IF (overflow_checks /\ Overflows(len, page_size, page_number))
               \/ SlicePanics(len, start, end)
            THEN /\ ix_pc' = "panic"
                 /\ UNCHANGED page
            ELSE /\ ix_pc' = "ok"
                 /\ page' = [start |-> start,
                             listed |-> SubSeq(entries, start + 1, end + 1),
                             num_pages |-> num_pages,
                             prev |-> start > 0,
                             next |-> end < last_index]
    /\ UNCHANGED <<dir_entries, page_size, page_number, overflow_checks>>
    /\ UNCHANGED <<dispatcher, evars, cvars, fvars>>

NextIndex == ListAll \/ Paginate

SpecIndex == InitIndex /\ [][NextIndex]_vars

\* the number of entries generate_index lists
EntryCount == Cardinality(Listable(dir_entries))

\* C21: for a directory of one entry or more and a page size of 1 or more
\* generate_index returns the page of the sorted entries from index
\* start = min(page_number * page_size, count - 1) to index
\* end = min(start + page_size - 1, count - 1), at most page_size entries,
\* with num_pages the quotient of count by page_size rounded up.
C21_PageBounds ==
    LET count == EntryCount
        start == Min(page_number * page_size, count - 1)
        end == Min(start + page_size - 1, count - 1)
    IN  (count >= 1 /\ page_size >= 1 /\ ix_pc # "called") =>
            /\ ix_pc = "ok"
            /\ page.start = start
            /\ \E entries \in SortedEntries(dir_entries) :
                    page.listed = SubSeq(entries, start + 1, end + 1)
            /\ Len(page.listed) <= page_size
            /\ page.num_pages = (count + page_size - 1) \div page_size

\* C29: for a directory without an entry to list and a page size of 1 or
\* more generate_index returns a page, whose listing is empty.
C29_EmptyDirectory ==
    (EntryCount = 0 /\ page_size >= 1 /\ ix_pc # "called") =>
        (ix_pc = "ok" /\ page.listed = <<>>)

====
